---- MODULE Spec2Model ----
(***************************************************************************)
(* Model of nexus-simple-router (src/main.go): the main flow of the        *)
(* process (flag validation, router, local client, the two transports,     *)
(* the dev.echo callee, the dev.time publisher, the wait for os.Interrupt  *)
(* and the deferred Close calls), the publisher goroutine, the dev.echo    *)
(* invocation handlers and the delivery of interrupt signals.              *)
(***************************************************************************)
EXTENDS Integers, Sequences, FiniteSets, TLC

VARIABLES
    cfg,          \* the parsed flags: wsEnable, rsEnable, devEcho, devTime
    pc,           \* position of the main goroutine
    panicVal,     \* "none", or the step whose failure made main panic
    defers,       \* main's stack of deferred Close calls (last is run first)
    trace,        \* what main has done so far: acquisitions, closes, log lines
    listening,    \* transports whose ListenAndServe succeeded and are not closed
    echoRegistered, \* dev.echo is registered on localClient
    ticker,       \* "none", "running", "stopped"
    tickerQuit,   \* "nil", "open", "closed": the tickerQuit channel
    tickChan,     \* number of ticks buffered in ticker.C (capacity 1)
    clock,        \* wall-clock time since the ticker was created, in clock units
    ticks,        \* number of ticks the ticker has fired
    pubPc,        \* publisher goroutine: "none", "select", "publish", "done"
    pubNow,       \* the publisher's local variable now
    published,    \* events published on dev.time
    sigInstalled, \* signal.Notify(shutdown, os.Interrupt) was called
    shutdownChan, \* number of signals buffered in shutdown (capacity 1)
    calls         \* dev.echo invocations

vars == <<cfg, pc, panicVal, defers, trace, listening, echoRegistered, ticker,
          tickerQuit, tickChan, clock, ticks, pubPc, pubNow, published,
          sigInstalled,
          shutdownChan, calls>>

mainVars == <<pc, panicVal, defers, trace, listening, echoRegistered>>
pubVars == <<ticker, tickerQuit, tickChan, clock, ticks, pubPc, pubNow, published>>
sigVars == <<sigInstalled, shutdownChan>>

----------------------------------------------------------------------------
\* Bounds of the model.
MaxTicks == 2
MaxCalls == 2
\* clock units in one second
UnitsPerSecond == 2

\* time.NewTicker(time.Second * 5)
TickInterval == 5
\* make(chan os.Signal, 1)
ShutdownCap == 1
\* ticker.C is a channel of capacity 1
TickCap == 1

Transports == {"ws", "rs"}
\* the invocations a caller may send: positional and keyword arguments
Invocations ==
    { [Arguments |-> <<2, 1>>, ArgumentsKw |-> {}],
      [Arguments |-> <<1>>, ArgumentsKw |-> {<<"j", 2>>, <<"k", 1>>}] }

Flags == [ws : BOOLEAN, rs : BOOLEAN, decho : BOOLEAN, dtime : BOOLEAN]

\* the flag variables after flag.Parse()
wsEnable == cfg.ws
rsEnable_AsWs == cfg.ws
rsEnable == cfg.rs
devEcho == cfg.decho
devTime == cfg.dtime

Terminal == {"exited", "crashed", "killed"}
Alive == pc \notin Terminal

Ev(op, res) == [op |-> op, res |-> res]

IdleCall == [st |-> "idle", inv |-> [Arguments |-> <<>>, ArgumentsKw |-> {}],
             res |-> [Args |-> <<>>, Kwargs |-> {}]]

----------------------------------------------------------------------------
Init ==
    /\ cfg \in Flags
    /\ pc = "validate"
    /\ panicVal = "none"
    /\ defers = <<>>
    /\ trace = <<>>
    /\ listening = {}
    /\ echoRegistered = FALSE
    /\ ticker = "none"
    /\ tickerQuit = "nil"
    /\ tickChan = 0
    /\ clock = 0
    /\ ticks = 0
    /\ pubPc = "none"
    /\ pubNow = 0
    /\ published = <<>>
    /\ sigInstalled = FALSE
    /\ shutdownChan = 0
    /\ calls = [i \in 1..MaxCalls |-> IdleCall]

\* defer r.Close(): the call is pushed on main's stack of deferred calls
Defer_Front(d, r) == <<r>> \o d
Defer(d, r) == Append(d, r)

Panic_Exit(v) ==
    /\ panicVal' = v
    /\ pc' = "crashed"

\* panic(v): main stops its normal flow and runs its deferred calls.
Panic(v) ==
    /\ panicVal' = v
    /\ pc' = "unwind"

Validate_NoCheck ==
    /\ pc = "validate"
    /\ pc' = "newRouter"
    /\ UNCHANGED <<cfg, panicVal, defers, trace, listening, echoRegistered,
                   pubVars, sigVars, calls>>

Validate_NotifyFirst ==
    /\ pc = "validate"
    /\ sigInstalled' = TRUE
    /\ IF ~wsEnable /\ ~rsEnable
         THEN Panic("config")
         ELSE pc' = "newRouter" /\ UNCHANGED panicVal
    /\ UNCHANGED <<cfg, defers, trace, listening, echoRegistered, pubVars,
                   shutdownChan, calls>>

\* if !wsEnable && !rsEnable { panic(...) }
Validate ==
    /\ pc = "validate"
    /\ IF ~wsEnable /\ ~rsEnable
         THEN Panic("config")
         ELSE pc' = "newRouter" /\ UNCHANGED panicVal
    /\ UNCHANGED <<cfg, defers, trace, listening, echoRegistered, pubVars,
                   sigVars, calls>>

\* wsRouter, err := router.NewRouter(...); defer wsRouter.Close()
NewRouter ==
    /\ pc = "newRouter"
    /\ \E ok \in BOOLEAN :
         IF ok
           THEN /\ pc' = "connectLocal"
                /\ defers' = Defer(defers, "router")
                /\ trace' = Append(trace, Ev("acquire", "router"))
                /\ UNCHANGED panicVal
           ELSE /\ Panic("router")
                /\ UNCHANGED <<defers, trace>>
    /\ UNCHANGED <<cfg, listening, echoRegistered, pubVars, sigVars, calls>>

ConnectLocal_RsFirst ==
    /\ pc = "connectLocal"
    /\ \E ok \in BOOLEAN :
         IF ok
           THEN /\ pc' = "rs"
                /\ defers' = Defer(defers, "session")
                /\ trace' = Append(trace, Ev("acquire", "session"))
                /\ UNCHANGED panicVal
           ELSE /\ Panic("session")
                /\ UNCHANGED <<defers, trace>>
    /\ UNCHANGED <<cfg, listening, echoRegistered, pubVars, sigVars, calls>>

\* localClient, err = client.ConnectLocal(...); defer localClient.Close()
ConnectLocal ==
    /\ pc = "connectLocal"
    /\ \E ok \in BOOLEAN :
         IF ok
           THEN /\ pc' = "ws"
                /\ defers' = Defer(defers, "session")
                /\ trace' = Append(trace, Ev("acquire", "session"))
                /\ UNCHANGED panicVal
           ELSE /\ Panic("session")
                /\ UNCHANGED <<defers, trace>>
    /\ UNCHANGED <<cfg, listening, echoRegistered, pubVars, sigVars, calls>>

StartWs_DeferFirst ==
    /\ pc = "ws"
    /\ IF ~wsEnable
         THEN /\ pc' = "rs"
              /\ UNCHANGED <<panicVal, defers, trace, listening>>
         ELSE \E ok \in BOOLEAN :
                /\ defers' = Defer(defers, "ws")
                /\ IF ok
                     THEN /\ pc' = "rs"
                          /\ listening' = listening \cup {"ws"}
                          /\ trace' = trace \o <<Ev("acquire", "ws"), Ev("log", "ws")>>
                          /\ UNCHANGED panicVal
                     ELSE /\ Panic("ws")
                          /\ UNCHANGED <<trace, listening>>
    /\ UNCHANGED <<cfg, echoRegistered, pubVars, sigVars, calls>>

\* if wsEnable { ... wsCloser, err := wsServer.ListenAndServe(wsAddr) ... }
StartWs ==
    /\ pc = "ws"
    /\ IF ~wsEnable
         THEN /\ pc' = "rs"
              /\ UNCHANGED <<panicVal, defers, trace, listening>>
         ELSE \E ok \in BOOLEAN :
                IF ok
                  THEN /\ pc' = "rs"
                       /\ listening' = listening \cup {"ws"}
                       /\ defers' = Defer(defers, "ws")
                       /\ trace' = trace \o <<Ev("acquire", "ws"), Ev("log", "ws")>>
                       /\ UNCHANGED panicVal
                  ELSE /\ Panic("ws")
                       /\ UNCHANGED <<defers, trace, listening>>
    /\ UNCHANGED <<cfg, echoRegistered, pubVars, sigVars, calls>>

StartRs_LogFirst ==
    /\ pc = "rs"
    /\ IF ~rsEnable
         THEN /\ pc' = "echo"
              /\ UNCHANGED <<panicVal, defers, trace, listening>>
         ELSE \E ok \in BOOLEAN :
                IF ok
                  THEN /\ pc' = "echo"
                       /\ listening' = listening \cup {"rs"}
                       /\ defers' = Defer(defers, "rs")
                       /\ trace' = trace \o <<Ev("log", "rs"), Ev("acquire", "rs")>>
                       /\ UNCHANGED panicVal
                  ELSE /\ Panic("rs")
                       /\ trace' = Append(trace, Ev("log", "rs"))
                       /\ UNCHANGED <<defers, listening>>
    /\ UNCHANGED <<cfg, echoRegistered, pubVars, sigVars, calls>>

\* if rsEnable { ... rsCloser, err := rsServer.ListenAndServe(rsProto, rsAddr) ... }
StartRs ==
    /\ pc = "rs"
    /\ IF ~rsEnable
         THEN /\ pc' = "echo"
              /\ UNCHANGED <<panicVal, defers, trace, listening>>
         ELSE \E ok \in BOOLEAN :
                IF ok
                  THEN /\ pc' = "echo"
                       /\ listening' = listening \cup {"rs"}
                       /\ defers' = Defer(defers, "rs")
                       /\ trace' = trace \o <<Ev("acquire", "rs"), Ev("log", "rs")>>
                       /\ UNCHANGED panicVal
                  ELSE /\ Panic("rs")
                       /\ UNCHANGED <<defers, trace, listening>>
    /\ UNCHANGED <<cfg, echoRegistered, pubVars, sigVars, calls>>

RegisterEcho_TimerFirst ==
    /\ pc = "echo"
    /\ IF devTime
         THEN /\ ticker' = "running"
              /\ tickerQuit' = "open"
              /\ pubPc' = "select"
         ELSE UNCHANGED <<ticker, tickerQuit, pubPc>>
    /\ IF ~devEcho
         THEN /\ pc' = "time"
              /\ UNCHANGED <<panicVal, trace, echoRegistered>>
         ELSE \E ok \in BOOLEAN :
                IF ok
                  THEN /\ pc' = "time"
                       /\ echoRegistered' = TRUE
                       /\ trace' = trace \o <<Ev("acquire", "proc"), Ev("log", "proc")>>
                       /\ UNCHANGED panicVal
                  ELSE /\ Panic("echo")
                       /\ UNCHANGED <<trace, echoRegistered>>
    /\ UNCHANGED <<cfg, defers, listening, tickChan, clock, ticks, pubNow,
                   published, sigVars, calls>>

\* if devEcho { err = createLocalCallee(localClient, "dev.echo", ...) }
\* createLocalCallee: client.Register, then the "registered RPC" log line.
RegisterEcho ==
    /\ pc = "echo"
    /\ IF ~devEcho
         THEN /\ pc' = "time"
              /\ UNCHANGED <<panicVal, trace, echoRegistered>>
         ELSE \E ok \in BOOLEAN :
                IF ok
                  THEN /\ pc' = "time"
                       /\ echoRegistered' = TRUE
                       /\ trace' = trace \o <<Ev("acquire", "proc"), Ev("log", "proc")>>
                       /\ UNCHANGED panicVal
                  ELSE /\ Panic("echo")
                       /\ UNCHANGED <<trace, echoRegistered>>
    /\ UNCHANGED <<cfg, defers, listening, pubVars, sigVars, calls>>

\* if devTime { ticker := time.NewTicker(...); tickerQuit := make(chan struct{});
\*              go func() {...}() }
StartTime ==
    /\ pc = "time"
    /\ pc' = "notify"
    /\ IF devTime
         THEN /\ ticker' = "running"
              /\ tickerQuit' = "open"
              /\ pubPc' = "select"
              /\ trace' = Append(trace, Ev("acquire", "timer"))
         ELSE UNCHANGED <<ticker, tickerQuit, pubPc, trace>>
    /\ UNCHANGED <<cfg, panicVal, defers, listening, echoRegistered, tickChan,
                   clock, ticks, pubNow, published, sigVars, calls>>

\* shutdown := make(chan os.Signal, 1); signal.Notify(shutdown, os.Interrupt)
Notify ==
    /\ pc = "notify"
    /\ pc' = "wait"
    /\ sigInstalled' = TRUE
    /\ UNCHANGED <<cfg, panicVal, defers, trace, listening, echoRegistered,
                   pubVars, shutdownChan, calls>>

\* <-shutdown, and main returns: its deferred calls start to run
Wait ==
    /\ pc = "wait"
    /\ shutdownChan > 0
    /\ shutdownChan' = shutdownChan - 1
    /\ pc' = "unwind"
    /\ UNCHANGED <<cfg, panicVal, defers, trace, listening, echoRegistered,
                   pubVars, sigInstalled, calls>>

\* the deferred call that runs next, and the stack without it
TopDeferred(d) == d[Len(d)]
PopDeferred_Keep(d) == d
PopDeferred(d) == SubSeq(d, 1, Len(d) - 1)

\* what a Close call may do: return nil, return an error, or panic
CloseOutcomes == {"ok", "err", "panic"}

\* main's panic after a deferred call: a returned value is dropped; a panic
\* in the call leaves main panicking (the first panic is the one kept here)
AfterClose(out) == IF out = "panic" /\ panicVal = "none" THEN "close" ELSE panicVal

\* what main has done after a deferred r.Close(): the call, and the panic it
\* raised when that is the panic main ends with
CloseEvents(r, out) ==
    IF out = "panic" /\ panicVal = "none"
      THEN <<Ev("close", r), Ev("fault", r)>>
      ELSE <<Ev("close", r)>>

RunDeferred_StopAtFault ==
    /\ pc = "unwind"
    /\ defers # <<>>
    /\ \E out \in CloseOutcomes :
         LET r == TopDeferred(defers) IN
           /\ defers' = IF out = "ok" THEN PopDeferred(defers) ELSE <<>>
           /\ trace' = trace \o CloseEvents(r, out)
           /\ listening' = listening \ {r}
           /\ panicVal' = AfterClose(out)
    /\ UNCHANGED <<cfg, pc, echoRegistered, pubVars, sigVars, calls>>

\* one deferred x.Close() runs; whatever it does, the deferred calls under it
\* stay on the stack and run next
RunDeferred ==
    /\ pc = "unwind"
    /\ defers # <<>>
    /\ \E out \in CloseOutcomes :
         LET r == TopDeferred(defers) IN
           /\ defers' = PopDeferred(defers)
           /\ trace' = trace \o CloseEvents(r, out)
           /\ listening' = listening \ {r}
           /\ panicVal' = AfterClose(out)
    /\ UNCHANGED <<cfg, pc, echoRegistered, pubVars, sigVars, calls>>

\* no deferred call is left: the process ends, with status 0 after a return
\* from main and abnormally after a panic
Exit ==
    /\ pc = "unwind"
    /\ defers = <<>>
    /\ pc' = IF panicVal = "none" THEN "exited" ELSE "crashed"
    /\ UNCHANGED <<cfg, panicVal, defers, trace, listening, echoRegistered,
                   pubVars, sigVars, calls>>

----------------------------------------------------------------------------
Min(a, b) == IF a < b THEN a ELSE b

Has(op, res) == \E i \in DOMAIN trace : trace[i] = Ev(op, res)

\* An os.Interrupt reaches the process. Before signal.Notify the Go runtime
\* ends the process at once (no deferred call runs); after it the signal is
\* sent to shutdown without blocking, and dropped when the buffer is full.
Interrupt ==
    /\ Alive
    /\ IF sigInstalled
         THEN /\ shutdownChan' = Min(shutdownChan + 1, ShutdownCap)
              /\ UNCHANGED pc
         ELSE /\ pc' = "killed"
              /\ UNCHANGED shutdownChan
    /\ UNCHANGED <<cfg, panicVal, defers, trace, listening, echoRegistered,
                   pubVars, sigInstalled, calls>>

\* the ticker's period in clock units, and the time its next tick is due
Period == TickInterval * UnitsPerSecond
NextDeadline == (ticks + 1) * Period

\* Time passes while the ticker runs, up to the moment its next tick is due.
\* The ticker may fire, and the goroutines may run, at that moment or later.
Advance ==
    /\ Alive
    /\ ticker = "running"
    /\ ticks < MaxTicks
    /\ clock < NextDeadline
    /\ clock' = NextDeadline
    /\ UNCHANGED <<cfg, mainVars, ticker, tickerQuit, tickChan, ticks, pubPc,
                   pubNow, published, sigVars, calls>>

\* The ticker fires, at its due time or later: a tick is put in ticker.C, or
\* dropped when it is full.
Tick ==
    /\ Alive
    /\ ticker = "running"
    /\ ticks < MaxTicks
    /\ clock >= NextDeadline
    /\ ticks' = ticks + 1
    /\ UNCHANGED clock
    /\ tickChan' = Min(tickChan + 1, TickCap)
    /\ UNCHANGED <<cfg, mainVars, ticker, tickerQuit, pubPc, pubNow, published,
                   sigVars, calls>>

\* the cases of the publisher's select that can proceed
ReadyCases ==
    (IF tickChan > 0 THEN {"tick"} ELSE {})
      \cup (IF tickerQuit = "closed" THEN {"quit"} ELSE {})

\* select { case <-ticker.C: now := time.Now() ...
\*          case <-tickerQuit: ticker.Stop(); return }
PubSelect ==
    /\ Alive
    /\ pubPc = "select"
    /\ \E c \in ReadyCases :
         IF c = "tick"
           THEN /\ tickChan' = tickChan - 1
                /\ pubNow' = clock
                /\ pubPc' = "publish"
                /\ UNCHANGED ticker
           ELSE /\ ticker' = "stopped"
                /\ pubPc' = "done"
                /\ UNCHANGED <<tickChan, pubNow>>
    /\ UNCHANGED <<cfg, mainVars, tickerQuit, clock, ticks, published, sigVars,
                   calls>>

\* now.Format(time.RFC3339): the wall-clock time cut to the whole second
Format(t) == [sec |-> t \div UnitsPerSecond]

\* the event of localClient.Publish("dev.time", wamp.Dict{}, wamp.List{nowStr},
\* wamp.Dict{}): options, positional arguments, keyword arguments
PublishEvent_ArgsAsKwargs(nowStr) ==
    [topic |-> "dev.time", args |-> <<>>, kwargs |-> {<<"time", nowStr>>},
     sessionClosed |-> Has("close", "session")]
PublishEvent(nowStr) ==
    [topic |-> "dev.time", args |-> <<nowStr>>, kwargs |-> {},
     sessionClosed |-> Has("close", "session")]

\* nowStr := now.Format(time.RFC3339); logger.Printf(...);
\* localClient.Publish("dev.time", wamp.Dict{}, wamp.List{nowStr}, wamp.Dict{})
PubPublish ==
    /\ Alive
    /\ pubPc = "publish"
    /\ published' = Append(published, PublishEvent(Format(pubNow)))
    /\ pubPc' = "select"
    /\ UNCHANGED <<cfg, mainVars, ticker, tickerQuit, tickChan, clock, ticks,
                   pubNow, sigVars, calls>>

----------------------------------------------------------------------------
\* The dev.echo callback: time.Sleep(2 * time.Second), then
\* res := client.InvokeResult{Args: inv.Arguments, Kwargs: inv.ArgumentsKw}
EchoHandler_DropKw(inv) == [Args |-> inv.Arguments, Kwargs |-> {}]
EchoHandler(inv) == [Args |-> inv.Arguments, Kwargs |-> inv.ArgumentsKw]

Invoke_Serialized(i, inv) ==
    /\ Alive
    /\ echoRegistered
    /\ ~Has("close", "session")
    /\ calls[i].st = "idle"
    /\ IF i = 1 THEN TRUE ELSE calls[i - 1].st # "idle"
    /\ \A j \in 1..MaxCalls : calls[j].st # "sleeping"
    /\ calls' = [calls EXCEPT ![i].st = "sleeping",
                              ![i].inv = inv]
    /\ UNCHANGED <<cfg, mainVars, pubVars, sigVars>>

\* The router dispatches an invocation of dev.echo to the local client: the
\* callback starts and sleeps.
Invoke(i, inv) ==
    /\ Alive
    /\ echoRegistered
    /\ ~Has("close", "session")
    /\ calls[i].st = "idle"
    /\ IF i = 1 THEN TRUE ELSE calls[i - 1].st # "idle"
    /\ calls' = [calls EXCEPT ![i].st = "sleeping",
                              ![i].inv = inv]
    /\ UNCHANGED <<cfg, mainVars, pubVars, sigVars>>

\* The sleep of one callback ends and it returns its result.
EchoReturn(i) ==
    /\ Alive
    /\ calls[i].st = "sleeping"
    /\ calls' = [calls EXCEPT ![i].st = "done",
                              ![i].res = EchoHandler(calls[i].inv)]
    /\ UNCHANGED <<cfg, mainVars, pubVars, sigVars>>

----------------------------------------------------------------------------
Next ==
    \/ Validate
    \/ NewRouter
    \/ ConnectLocal
    \/ StartWs
    \/ StartRs
    \/ RegisterEcho
    \/ StartTime
    \/ Notify
    \/ Wait
    \/ RunDeferred
    \/ Exit
    \/ Interrupt
    \/ Advance
    \/ Tick
    \/ PubSelect
    \/ PubPublish
    \/ \E i \in 1..MaxCalls, inv \in Invocations : Invoke(i, inv)
    \/ \E i \in 1..MaxCalls : EchoReturn(i)

Spec == Init /\ [][Next]_vars

----------------------------------------------------------------------------
\* Readings of the state used by the properties below.

Range(f) == {f[i] : i \in DOMAIN f}
Reverse(q) == [i \in 1..Len(q) |-> q[Len(q) + 1 - i]]
IsPrefix(p, q) == Len(p) <= Len(q) /\ SubSeq(q, 1, Len(p)) = p

\* the resources main releases with a Close call
Closable == {"router", "session", "ws", "rs"}
\* every resource with a release of its own
Releasable == Closable \cup {"timer"}

IsAcquireOfClosable(e) == e.op = "acquire" /\ e.res \in Closable
IsClose(e) == e.op = "close"
ResOf(q) == [i \in 1..Len(q) |-> q[i].res]
\* the closable resources in the order main acquired them
AcquiredSeq == ResOf(SelectSeq(trace, IsAcquireOfClosable))
\* the resources in the order main closed them
ClosedSeq == ResOf(SelectSeq(trace, IsClose))

CloseCount(r) == Cardinality({i \in DOMAIN trace : trace[i] = Ev("close", r)})
PositionOf(op, r) == CHOOSE i \in DOMAIN trace : trace[i] = Ev(op, r)
AcquiredBefore(r1, r2) ==
    /\ Has("acquire", r1)
    /\ Has("acquire", r2)
    /\ PositionOf("acquire", r1) < PositionOf("acquire", r2)
Released(r) == IF r = "timer" THEN ticker = "stopped" ELSE Has("close", r)

Running == pc = "wait"
Draining == pc = "unwind" /\ panicVal = "none"
Terminated == pc = "exited"
EnabledTransports == {t \in Transports : cfg[t]}

----------------------------------------------------------------------------
\* C1: with both transports disabled, main panics at the flag check and
\* nothing is ever created: no router, session, listener, registration,
\* timer, publisher goroutine or signal handler, in any state of the run.
NoTransportNoResource ==
    (~cfg.ws /\ ~cfg.rs) =>
        /\ trace = <<>>
        /\ defers = <<>>
        /\ listening = {}
        /\ ~echoRegistered
        /\ ticker = "none"
        /\ pubPc = "none"
        /\ ~sigInstalled
        /\ pc \in {"validate", "unwind", "crashed", "killed"}
        /\ pc \in {"unwind", "crashed"} => panicVal = "config"

NoTransportAborted == ~cfg.ws /\ ~cfg.rs /\ pc = "crashed" /\ panicVal = "config"

\* C2: once main drains after the interrupt, releases happen in reverse
\* acquisition order, the publisher's timer first: a resource is released
\* only when every resource acquired after it has been released.
ReverseOrderRelease ==
    (Draining \/ Terminated) =>
        \A r1, r2 \in Releasable :
            (AcquiredBefore(r1, r2) /\ Released(r1)) => Released(r2)

\* C3: when the publisher is enabled, by the time the process has ended after
\* the interrupt the publisher loop has seen the stop notification, stopped
\* its ticker and returned.
StopNotificationObserved ==
    (Terminated /\ cfg.dtime) => (ticker = "stopped" /\ pubPc = "done")

\* C4: when the process has ended after the interrupt, every resource it
\* acquired (listeners, timer, session, router) has been released, and it
\* ended with the successful status.
AllReleasedAtExit ==
    Terminated =>
        /\ panicVal = "none"
        /\ \A r \in Releasable : Has("acquire", r) => Released(r)

\* C5: whatever number of interrupts arrives, each Close is called at most
\* once, and once the signal channel is installed a signal makes nothing
\* panic (the only panic left is one raised by a Close call itself).
AtMostOneRelease ==
    /\ \A r \in Closable : CloseCount(r) <= 1
    /\ sigInstalled => panicVal \in {"none", "close"}

\* a signal is left in the channel at the end: it came after the one main took
SecondSignalDuringTeardown ==
    /\ shutdownChan = 1
    /\ Terminated
    /\ CloseCount("router") = 1
    /\ CloseCount("rs") = 1

\* C6: when a ListenAndServe fails, main panics; no later startup step has
\* run (no second transport, registration, publisher or signal handler), the
\* closes so far are a prefix of the reverse of the acquisitions, and when
\* the process has crashed every acquired resource has been closed.
ListenFailureUnwinds ==
    panicVal \in Transports =>
        /\ pc \in {"unwind", "crashed", "killed"}
        /\ ~Has("acquire", panicVal)
        /\ panicVal = "ws" => ~Has("acquire", "rs")
        /\ ~echoRegistered
        /\ ticker = "none"
        /\ pubPc = "none"
        /\ ~sigInstalled
        /\ IsPrefix(ClosedSeq, Reverse(AcquiredSeq))
        /\ pc = "crashed" => ClosedSeq = Reverse(AcquiredSeq)

RsListenFailed ==
    /\ panicVal = "rs"
    /\ pc = "crashed"
    /\ ClosedSeq = <<"ws", "session", "router">>

\* C7: when ConnectLocal fails the router is closed and no listener was
\* created; when the registration of dev.echo fails the listeners, the
\* session and the router are closed in reverse acquisition order; in
\* neither case does main reach the wait for the signal.
SessionOrRegistrationFailureUnwinds ==
    /\ panicVal = "session" =>
         /\ AcquiredSeq = <<"router">>
         /\ listening = {}
         /\ IsPrefix(ClosedSeq, <<"router">>)
         /\ pc = "crashed" => ClosedSeq = <<"router">>
    /\ panicVal = "echo" =>
         /\ Range(AcquiredSeq) = {"router", "session"} \cup EnabledTransports
         /\ IsPrefix(ClosedSeq, Reverse(AcquiredSeq))
         /\ pc = "crashed" => ClosedSeq = Reverse(AcquiredSeq)
    /\ panicVal \in {"session", "echo"} =>
         /\ pc \in {"unwind", "crashed", "killed"}
         /\ ~sigInstalled
         /\ ticker = "none"

RegistrationFailed ==
    /\ panicVal = "echo"
    /\ pc = "crashed"
    /\ ClosedSeq = <<"rs", "ws", "session", "router">>

\* C8: a listener whose ListenAndServe failed is never owned: it is not on
\* the stack of deferred closes, is never closed and never listening; every
\* listener that is owned or was closed is one whose start succeeded.
FailedListenerNeverOwned ==
    \A t \in Transports :
        /\ (t \in Range(defers) \/ Has("close", t) \/ t \in listening)
              => Has("acquire", t)
        /\ panicVal = t =>
              /\ t \notin Range(defers)
              /\ ~Has("close", t)
              /\ t \notin listening

WsListenFailed ==
    /\ panicVal = "ws"
    /\ pc = "crashed"
    /\ ClosedSeq = <<"session", "router">>

\* C9: while main waits for the signal, exactly the enabled transports are
\* listening, dev.echo is registered iff -decho, and the publisher's ticker
\* and goroutine run iff -dtime.
RunningMatchesConfig ==
    Running =>
        /\ listening = EnabledTransports
        /\ echoRegistered = cfg.decho
        /\ (ticker = "running") = cfg.dtime
        /\ (pubPc \in {"select", "publish"}) = cfg.dtime

RunningRsOnly ==
    /\ Running
    /\ ~cfg.ws
    /\ cfg.rs
    /\ cfg.dtime
    /\ listening = {"rs"}

\* C10: every result dev.echo returns carries the invocation's positional
\* and keyword arguments unchanged, and echoing the result again gives the
\* same result.
AsInvocation(res) == [Arguments |-> res.Args, ArgumentsKw |-> res.Kwargs]
EchoReturnsInput ==
    \A i \in 1..MaxCalls :
        calls[i].st = "done" =>
            /\ calls[i].res.Args = calls[i].inv.Arguments
            /\ calls[i].res.Kwargs = calls[i].inv.ArgumentsKw
            /\ EchoHandler(AsInvocation(calls[i].res)) = calls[i].res

EchoReturnedKwargs ==
    \E i \in 1..MaxCalls :
        /\ calls[i].st = "done"
        /\ calls[i].inv.ArgumentsKw # {}
        /\ calls[i].res.Kwargs # {}

\* C11: a dev.echo callback that sleeps blocks nothing: while one invocation
\* sleeps, every other sleeping invocation can return, the next invocation
\* can start, the publisher can take a tick and main can take the signal.
NextCallCanStart(j) ==
    /\ Alive
    /\ echoRegistered
    /\ ~Has("close", "session")
    /\ calls[j].st = "idle"
    /\ IF j = 1 THEN TRUE ELSE calls[j - 1].st # "idle"
IndependentSuspension ==
    \A i \in 1..MaxCalls :
        calls[i].st = "sleeping" =>
            /\ \A j \in 1..MaxCalls :
                 (Alive /\ calls[j].st = "sleeping") => ENABLED EchoReturn(j)
            /\ \A j \in 1..MaxCalls :
                 NextCallCanStart(j) =>
                     \A inv \in Invocations : ENABLED Invoke(j, inv)
            /\ (Alive /\ pubPc = "select" /\ tickChan > 0) => ENABLED PubSelect
            /\ (pc = "wait" /\ shutdownChan > 0) => ENABLED Wait

TwoCallsSleeping ==
    /\ Running
    /\ calls[1].st = "sleeping"
    /\ calls[2].st = "sleeping"
    /\ pubPc = "select"
    /\ tickChan > 0
    /\ shutdownChan > 0

\* C12: every tick of the ticker leads to exactly one publish on dev.time
\* with no keyword arguments and the timestamp as its only positional
\* argument, and each timestamp is strictly greater than the one before.
InFlight == IF pubPc = "publish" THEN 1 ELSE 0
WellFormedEvent(e) ==
    /\ e.topic = "dev.time"
    /\ e.kwargs = {}
    /\ Len(e.args) = 1
EveryTickPublishedIncreasing ==
    /\ \A i \in DOMAIN published : WellFormedEvent(published[i])
    /\ Len(published) + InFlight + tickChan = ticks
    /\ \A i \in 1..(Len(published) - 1) :
         published[i].args[1].sec < published[i + 1].args[1].sec

\* C12 as amended: every tick the loop takes from ticker.C leads to exactly
\* one publish of that shape, never more publishes than ticks fired; the
\* timestamps never decrease (the wall clock is not set back in this model).
TickPublishNonDecreasing ==
    /\ \A i \in DOMAIN published : WellFormedEvent(published[i])
    /\ Len(published) + InFlight + tickChan <= ticks
    /\ \A i \in 1..(Len(published) - 1) :
         published[i].args[1].sec <= published[i + 1].args[1].sec
    /\ \A i \in DOMAIN published :
         published[i].args[1].sec * UnitsPerSecond <= clock

TwoEventsSameSecond ==
    /\ Len(published) >= 2
    /\ published[1].args[1].sec = published[2].args[1].sec
    /\ Len(published) = ticks

\* C13: resources are acquired in one order: router, session, ws listener,
\* rs listener, dev.echo registration, publisher timer, each only if it is
\* configured: what has been acquired so far is always a prefix of that list.
IsAcquire(e) == e.op = "acquire"
AcquiredAllSeq == ResOf(SelectSeq(trace, IsAcquire))
AcquisitionOrder == <<"router", "session", "ws", "rs", "proc", "timer">>
IsConfigured(r) ==
    CASE r = "ws" -> cfg.ws
      [] r = "rs" -> cfg.rs
      [] r = "proc" -> cfg.decho
      [] r = "timer" -> cfg.dtime
      [] OTHER -> TRUE
FixedAcquisitionOrder ==
    /\ IsPrefix(AcquiredAllSeq, SelectSeq(AcquisitionOrder, IsConfigured))
    /\ \A t \in Transports : Has("acquire", t) => Has("acquire", "session")

EverythingAcquired ==
    /\ Running
    /\ AcquiredAllSeq = AcquisitionOrder

\* C14: every owned resource gets its Close call, whatever an earlier Close
\* returned or raised: while main unwinds, the closes made and the deferred
\* calls still stacked are together the reverse of the acquisitions, and
\* when the process has ended after unwinding every one has been closed.
ReleaseAttemptedDespiteFaults ==
    /\ pc = "unwind" =>
         /\ Reverse(AcquiredSeq) = ClosedSeq \o Reverse(defers)
         /\ defers # <<>> => ENABLED RunDeferred
    /\ pc \in {"exited", "crashed"} => ClosedSeq = Reverse(AcquiredSeq)

RsCloseFaultedOthersClosed ==
    /\ pc = "crashed"
    /\ panicVal = "close"
    /\ Has("fault", "rs")
    /\ ClosedSeq = <<"rs", "ws", "session", "router">>

\* C15: the "listening on" line of a transport is printed at most once, only
\* for an enabled transport, only after its ListenAndServe succeeded and its
\* Close was deferred, never for one whose start failed; while main waits
\* for the signal it has been printed for exactly the enabled transports.
Count(op, r) == Cardinality({i \in DOMAIN trace : trace[i] = Ev(op, r)})
ListeningLineAfterStart ==
    \A t \in Transports :
        /\ Count("log", t) <= 1
        /\ Has("log", t) =>
             /\ cfg[t]
             /\ panicVal # t
             /\ Has("acquire", t)
             /\ PositionOf("acquire", t) < PositionOf("log", t)
             /\ t \in Range(defers) \/ Has("close", t)
        /\ Running => (Has("log", t) <=> cfg[t])

BothListeningLines ==
    /\ Running
    /\ Count("log", "ws") = 1
    /\ Count("log", "rs") = 1
    /\ defers = <<"router", "session", "ws", "rs">>

\* C16: the publisher never calls Publish on the local session after the
\* session's Close: no published event was published with the session closed.
NoPublishAfterSessionClose ==
    \A i \in DOMAIN published : ~published[i].sessionClosed

\* C17: the interrupt is handled only once startup is complete: the signal
\* channel is installed, and holds a signal, only after every configured
\* startup step is done; main drains only from the wait for the signal; a
\* process ended by an earlier interrupt never had the channel installed.
StartupComplete ==
    /\ \A r \in Range(AcquisitionOrder) : IsConfigured(r) => Has("acquire", r)
    /\ pc \in {"wait", "unwind", "exited", "crashed"}
StartupPanics == {"config", "router", "session", "ws", "rs", "echo"}
InterruptHandledOnlyWhenRunning ==
    /\ sigInstalled => StartupComplete
    /\ shutdownChan > 0 => sigInstalled
    /\ (pc \in {"unwind", "exited", "crashed"} /\ panicVal \notin StartupPanics)
          => sigInstalled
    /\ pc = "killed" => (~sigInstalled /\ shutdownChan = 0)

KilledBeforeNotify ==
    /\ pc = "killed"
    /\ listening = Transports
    /\ ticker = "running"
    /\ echoRegistered
    /\ ClosedSeq = <<>>

\* C18: the ticker and the publisher goroutine exist only after every step
\* that can abort startup has succeeded: no startup panic happens with a
\* ticker running, and no aborted startup leaves a ticker behind.
TimerAfterFallibleSteps ==
    /\ (ticker # "none" \/ pubPc # "none") =>
         /\ panicVal \notin StartupPanics
         /\ pc \notin {"validate", "newRouter", "connectLocal", "ws", "rs", "echo", "time"}
         /\ \A r \in {"router", "session", "ws", "rs", "proc"} :
              IsConfigured(r) => Has("acquire", r)
    /\ panicVal \in StartupPanics =>
         /\ ticker = "none"
         /\ pubPc = "none"
         /\ ~Has("acquire", "timer")

RegistrationFailedTimerConfigured ==
    /\ pc = "crashed"
    /\ panicVal = "echo"
    /\ cfg.dtime
    /\ ticker = "none"

====
